---- MODULE Spec2Model ----
(***************************************************************************)
(* Model of the SEC -> Redivis ETL pipeline (src/SEC.py): the ledger of    *)
(* uploaded paths, the discovery of candidate .tsv files, the per-file row *)
(* normalisation, the upload, the ledger append and the Slack alert.       *)
(*                                                                         *)
(* Text is modelled as sequences of one-character strings, so that         *)
(* splitting, stripping, replacing and comparing are computed as the code  *)
(* computes them.                                                          *)
(***************************************************************************)
EXTENDS Integers, Sequences, FiniteSets, TLC

VARIABLES
    tree,           \* the files under unzip_path: records [dir, name, content]
    ledgerExists,   \* os.path.exists(text_file_path)
    ledgerFile,     \* the characters of the ledger file
    remote,         \* uploads the remote store accepted, in order
    runs,           \* number of runs of upload_append_csv_files started
    last,           \* outcome of the latest run that got past get_paths_dict
    prev,           \* per run: the value of last when the run started
    pc,             \* per run: position in upload_append_csv_files
    d,              \* per run: the dictionary returned by get_paths_dict
    pos,            \* per run: number of candidate files already passed
    file,           \* per run: f.readlines() of the current file
    i,              \* per run: loop index of enumerate(file)
    line_list,      \* per run: rows kept so far
    idx_list,       \* per run: indices of removed rows
    invalid_rows_counter,
    trace           \* per run: what the run did, in order

vars == <<tree, ledgerExists, ledgerFile, remote, runs, last, prev, pc, d, pos,
          file, i, line_list, idx_list, invalid_rows_counter, trace>>

-----------------------------------------------------------------------------
(* Bounds *)

MaxRuns == 3

MaxContentLen == 7

Procs == {"r1", "r2"}

-----------------------------------------------------------------------------
(* Characters and strings *)

TAB == "\t"
NL == "\n"
BACKSLASH == "\\"

\* The characters used, in ASCII order.
Ascii == <<"\t", "\n", " ", "-", ".", "/", "1", "2", "3", "4", "5", "6", "\\", "_",
           "a", "b", "c", "d", "e", "f", "h", "i", "k", "l", "n", "o", "p",
           "q", "s", "t", "u", "v", "x", "y", "z">>

Ord(c) == CHOOSE k \in 1..Len(Ascii) : Ascii[k] = c

Whitespace == {" ", "\t", "\n"}

RECURSIVE LexLess(_, _)
\* Python's str < str
LexLess(a, b) ==
    IF a = <<>> THEN b # <<>>
    ELSE IF b = <<>> THEN FALSE
    ELSE IF Head(a) = Head(b) THEN LexLess(Tail(a), Tail(b))
    ELSE Ord(Head(a)) < Ord(Head(b))

RECURSIVE Split(_, _)
\* str.split(sep) for a one-character sep: a list of at least one field
Split(s, sep) ==
    IF \A k \in 1..Len(s) : s[k] # sep THEN <<s>>
    ELSE LET k == CHOOSE k \in 1..Len(s) :
                      s[k] = sep /\ \A j \in 1..(k-1) : s[j] # sep
         IN <<SubSeq(s, 1, k-1)>> \o Split(SubSeq(s, k+1, Len(s)), sep)

RECURSIVE Replace(_, _, _)
\* str.replace(old, new) for a one-character old
Replace(s, old, new) ==
    IF s = <<>> THEN <<>>
    ELSE (IF Head(s) = old THEN new ELSE <<Head(s)>>) \o Replace(Tail(s), old, new)

RECURSIVE ReadLines(_)
\* file.readlines(): every line keeps its terminator, the last may have none
ReadLines(s) ==
    IF s = <<>> THEN <<>>
    ELSE IF \A k \in 1..Len(s) : s[k] # NL THEN <<s>>
    ELSE LET k == CHOOSE k \in 1..Len(s) :
                      s[k] = NL /\ \A j \in 1..(k-1) : s[j] # NL
         IN <<SubSeq(s, 1, k)>> \o ReadLines(SubSeq(s, k+1, Len(s)))

RECURSIVE Strip(_)
\* bytes.strip(): leading and trailing whitespace removed
Strip(s) ==
    IF s = <<>> THEN <<>>
    ELSE IF Head(s) \in Whitespace THEN Strip(Tail(s))
    ELSE IF s[Len(s)] \in Whitespace THEN Strip(SubSeq(s, 1, Len(s)-1))
    ELSE s

\* file.endswith(suffix)
EndsWith(s, suffix) ==
    /\ Len(s) >= Len(suffix)
    /\ SubSeq(s, Len(s) - Len(suffix) + 1, Len(s)) = suffix

\* sub in s
Contains(s, sub) ==
    \E k \in 1..(Len(s) - Len(sub) + 1) : SubSeq(s, k, k + Len(sub) - 1) = sub

\* x in list
Member(x, list) == \E k \in 1..Len(list) : list[k] = x

RECURSIVE RemoveFirst(_, _)
\* list.remove(x): the first element equal to x is removed
RemoveFirst(list, x) ==
    IF list = <<>> THEN <<>>
    ELSE IF Head(list) = x THEN Tail(list)
    ELSE <<Head(list)>> \o RemoveFirst(Tail(list), x)

RECURSIVE Insert(_, _)
Insert(sorted, x) ==
    IF sorted = <<>> THEN <<x>>
    ELSE IF LexLess(x, Head(sorted)) THEN <<x>> \o sorted
    ELSE <<Head(sorted)>> \o Insert(Tail(sorted), x)

RECURSIVE Sorted(_)
\* sorted(v, reverse=False)
Sorted(v) == IF v = <<>> THEN <<>> ELSE Insert(Sorted(Tail(v)), Head(v))

-----------------------------------------------------------------------------
(* Configuration (module level of SEC.py) *)

unzip_path == <<".", "/", "u", "n", "z", "i", "p", "_", "f", "i", "l", "e", "s">>

TsvSuffix == <<".", "t", "s", "v">>

Checkpoint == <<"c", "h", "e", "c", "k", "p", "o", "i", "n", "t">>

-----------------------------------------------------------------------------
(* The file tree under unzip_path *)

Q1 == <<"q", "1">>
Q2 == <<"q", "2">>

\* Two releases of a.tsv, a b.tsv with a header only and one with no line,
\* a.x.tsv, and two files that discovery must leave out.
TreeA ==
    << [dir |-> Q1, name |-> <<"a", ".", "t", "s", "v">>,
        content |-> <<"a", "\t", "b", "\n", "1", "\t", "2", "\n">>],
       [dir |-> Q2, name |-> <<"a", ".", "t", "s", "v">>,
        content |-> <<"a", "\t", "b", "\n", "1", "\n", "3", "\t", "4", "\n">>],
       [dir |-> Q1, name |-> <<"b", ".", "t", "s", "v">>,
        content |-> <<"a", "\t", "b", "\n">>],
       [dir |-> Q2, name |-> <<"b", ".", "t", "s", "v">>, content |-> <<>>],
       [dir |-> Q1, name |-> <<"a", ".", "x", ".", "t", "s", "v">>,
        content |-> <<"c", "\n", "d", "\\", "\n">>],
       [dir |-> Q1, name |-> <<"a", "-">> \o Checkpoint \o TsvSuffix,
        content |-> <<"a", "\n", "1", "\n">>],
       [dir |-> Q2, name |-> <<"n", ".", "t", "x", "t">>,
        content |-> <<"a", "\n", "1", "\n">>] >>

\* file_path = dirpath+'/'+file, dirpath = os.path.join(unzip_path, dir)
FilePath(f) == unzip_path \o <<"/">> \o f.dir \o <<"/">> \o f.name

Range(s) == {s[k] : k \in 1..Len(s)}

\* open(path).read()
ContentOf(t, path) == (CHOOSE f \in Range(t) : FilePath(f) = path).content

RECURSIVE Perms(_)
Perms(S) ==
    IF S = {} THEN {<<>>}
    ELSE UNION {{<<x>> \o q : q \in Perms(S \ {x})} : x \in S}

Dirs(t) == {f.dir : f \in Range(t)}

RECURSIVE WalkDirs(_, _)
\* the listings of the directories dirs, visited in that order, each
\* directory's files in some order
WalkDirs(t, dirs) ==
    IF dirs = <<>> THEN {<<>>}
    ELSE {a \o b : a \in Perms({f \in Range(t) : f.dir = Head(dirs)}),
                   b \in WalkDirs(t, Tail(dirs))}

\* os.walk(unzip_path): the order of a directory listing is the file
\* system's, so every order is possible
Walk(t) == UNION {WalkDirs(t, ds) : ds \in Perms(Dirs(t))}

-----------------------------------------------------------------------------
(* Ledger *)

\* (mutant) the lines are returned with their terminators
get_uploaded_tables_raw(content) == ReadLines(content)

\* get_uploaded_tables: [line.strip().decode('ascii') for line in content]
get_uploaded_tables(content) ==
    LET lines == ReadLines(content)
    IN [k \in 1..Len(lines) |-> Strip(lines[k])]

\* (mutant) the file is opened with 'w' on every call
CreateAlways(exists, content) == <<>>

\* if not os.path.exists(text_file_path): open(text_file_path, 'w').close()
CreateIfMissing(exists, content) == IF exists THEN content ELSE <<>>

\* (mutant) the path is written unless the ledger holds it
write_if_absent(content, table_name_full_path) ==
    IF Member(table_name_full_path, get_uploaded_tables(content))
    THEN content
    ELSE content \o table_name_full_path \o <<NL>>

\* write_uploaded_tables: f.write(path); f.write('\n') in append mode
write_uploaded_tables(content, table_name_full_path) ==
    content \o table_name_full_path \o <<NL>>

-----------------------------------------------------------------------------
(* Discovery *)

\* (mutant) file.endswith('.tsv')
WantedAnyTsv(name) == EndsWith(name, TsvSuffix)

\* file.endswith('.tsv') and not 'checkpoint' in file
Wanted(name) == EndsWith(name, TsvSuffix) /\ ~Contains(name, Checkpoint)

\* d[key].append(x) on a defaultdict(list): a new key goes last
DictAppend(dict, key, x) ==
    IF \E k \in 1..Len(dict) : dict[k].key = key
    THEN [k \in 1..Len(dict) |->
             IF dict[k].key = key
             THEN [dict[k] EXCEPT !.value = Append(@, x)] ELSE dict[k]]
    ELSE Append(dict, [key |-> key, value |-> <<x>>])

RECURSIVE Collect(_, _, _)
\* the walk loop of get_paths_dict
Collect(walk, uploaded_files, dict) ==
    IF walk = <<>> THEN dict
    ELSE LET f == Head(walk)
             file_path == FilePath(f)
         IN Collect(Tail(walk), uploaded_files,
                    IF Wanted(f.name) /\ ~Member(file_path, uploaded_files)
                    THEN DictAppend(dict, f.name, file_path) ELSE dict)

\* d = {k: sorted(v, reverse=False) for k,v in d.items()}
SortValues(dict) ==
    [k \in 1..Len(dict) |-> [dict[k] EXCEPT !.value = Sorted(@)]]

get_paths_dict(uploaded_files, walk) ==
    SortValues(Collect(walk, uploaded_files, <<>>))

\* what get_paths_dict can return for a ledger with this content
PathsDicts(t, content) ==
    LET uploaded_files == get_uploaded_tables(content)
    IN {get_paths_dict(uploaded_files, walk) : walk \in Walk(t)}

RECURSIVE Todo(_)
\* for key, value in d.items(): for path in value
Todo(dict) ==
    IF dict = <<>> THEN <<>>
    ELSE [k \in 1..Len(Head(dict).value) |->
             [key |-> Head(dict).key, path |-> Head(dict).value[k]]]
         \o Todo(Tail(dict))

\* table_name = key.split('.')[0]
TableName(key) == Split(key, ".")[1]

-----------------------------------------------------------------------------
(* Row normalisation *)

\* line.replace("\\"," ").replace("\"", '"').replace("\'", "'").replace("\n","")
\* (the two quote replacements replace a character by itself)
Clean(fld) == Replace(Replace(fld, BACKSLASH, <<" ">>), NL, <<>>)

Cleaned(line) ==
    LET splitted == Split(line, TAB)
    IN [k \in 1..Len(splitted) |-> Clean(splitted[k])]

\* (mutant) len(cleaned) < len(line_list[0])
MismatchShorter(cleaned, ll) == Len(cleaned) < Len(ll[1])

\* len(cleaned) != len(line_list[0])
Mismatch(cleaned, ll) == Len(cleaned) # Len(ll[1])

\* (mutant) the index counts from 1
RowIndexFromOne(n) == <<n + 1, ".">>

\* row_index = f'{i}' + "."
RowIndex(n) == <<n, ".">>

\* round(a / b): Python rounds a tie to the even neighbour
RoundDiv(a, b) ==
    LET q == a \div b
        r == a % b
    IN IF 2 * r < b THEN q
       ELSE IF 2 * r > b THEN q + 1
       ELSE IF q % 2 = 0 THEN q ELSE q + 1

\* (mutant) the skipped rows over len(file)
SkippedPercentOfLines(invalid, lines) == RoundDiv(invalid * 100000, lines)

\* round((invalid_rows_counter/(len(file)-1))*100,3), in thousandths of a
\* percent; lines is len(file)
SkippedPercent(invalid, lines) == RoundDiv(invalid * 100000, lines - 1)

\* the body of  for i, line in enumerate(file)
RowStep(st, n, line) ==
    LET cleaned == Cleaned(line)
        ll == Append(st.line_list, cleaned)
    IN IF Mismatch(cleaned, ll)
       THEN [line_list |-> RemoveFirst(ll, cleaned),
             invalid_rows_counter |-> st.invalid_rows_counter + 1,
             idx_list |-> Append(st.idx_list, RowIndex(n))]
       ELSE [st EXCEPT !.line_list = ll]

-----------------------------------------------------------------------------
(* State *)

NoPath == <<>>

Event(ev, path, info) == [ev |-> ev, path |-> path, info |-> info]

Stopped(p) == pc[p] \in {"idle", "done", "aborted", "no_dataset"}

\* the candidate the run is at
Current(p) == Todo(d[p])[pos[p] + 1]

loopVars == <<file, i, line_list, idx_list, invalid_rows_counter>>

Init ==
    /\ tree = TreeA
    /\ ledgerExists = FALSE
    /\ ledgerFile = <<>>
    /\ remote = <<>>
    /\ runs = 0
    /\ last = [status |-> "none", failed |-> NoPath]
    /\ prev = [p \in Procs |-> [status |-> "none", failed |-> NoPath]]
    /\ pc = [p \in Procs |-> "idle"]
    /\ d = [p \in Procs |-> <<>>]
    /\ pos = [p \in Procs |-> 0]
    /\ file = [p \in Procs |-> <<>>]
    /\ i = [p \in Procs |-> 0]
    /\ line_list = [p \in Procs |-> <<>>]
    /\ idx_list = [p \in Procs |-> <<>>]
    /\ invalid_rows_counter = [p \in Procs |-> 0]
    /\ trace = [p \in Procs |-> <<>>]

-----------------------------------------------------------------------------
(* upload_append_csv_files, step by step *)

\* A run begins; redivis ... dataset.exists() / dataset.create() raises
\* before the ledger is touched.
DatasetFail(p) ==
    /\ Stopped(p)
    /\ runs < MaxRuns
    /\ runs' = runs + 1
    /\ prev' = [prev EXCEPT ![p] = last]
    /\ pc' = [pc EXCEPT ![p] = "no_dataset"]
    /\ d' = [d EXCEPT ![p] = <<>>]
    /\ pos' = [pos EXCEPT ![p] = 0]
    /\ trace' = [trace EXCEPT ![p] = <<>>]
    /\ UNCHANGED <<tree, ledgerExists, ledgerFile, remote, last>>
    /\ UNCHANGED loopVars

\* A run begins: d, dataset = get_paths_dict(...). get_uploaded_tables
\* creates the ledger file when it is missing.
Begin(p) ==
    /\ Stopped(p)
    /\ runs < MaxRuns
    /\ runs' = runs + 1
    /\ prev' = [prev EXCEPT ![p] = last]
    /\ ledgerExists' = TRUE
    /\ ledgerFile' = CreateIfMissing(ledgerExists, ledgerFile)
    /\ \E dict \in PathsDicts(tree, ledgerFile') : d' = [d EXCEPT ![p] = dict]
    /\ pos' = [pos EXCEPT ![p] = 0]
    /\ trace' = [trace EXCEPT ![p] = <<>>]
    /\ pc' = [pc EXCEPT ![p] = "files"]
    /\ UNCHANGED <<tree, remote, last>>
    /\ UNCHANGED loopVars

\* (mutant) len(file) < 1
IsEmptyNoLine(lines) == Len(lines) < 1

\* len(file) < 2
IsEmpty(lines) == Len(lines) < 2

\* len(file) < 2: the path is written to the ledger, continue
EmptyFile(p) ==
    /\ pc[p] = "files"
    /\ pos[p] < Len(Todo(d[p]))
    /\ LET path == Current(p).path
       IN /\ IsEmpty(ReadLines(ContentOf(tree, path)))
          /\ ledgerFile' = write_uploaded_tables(ledgerFile, path)
          /\ ledgerExists' = TRUE
          /\ trace' = [trace EXCEPT ![p] = Append(@, Event("append", path, <<>>))]
    /\ pos' = [pos EXCEPT ![p] = @ + 1]
    /\ UNCHANGED <<tree, remote, runs, last, prev, pc, d>>
    /\ UNCHANGED loopVars

\* file = f.readlines(); line_list = []; invalid_rows_counter = 0; idx_list = []
OpenFile(p) ==
    /\ pc[p] = "files"
    /\ pos[p] < Len(Todo(d[p]))
    /\ LET lines == ReadLines(ContentOf(tree, Current(p).path))
       IN /\ ~IsEmpty(lines)
          /\ file' = [file EXCEPT ![p] = lines]
    /\ i' = [i EXCEPT ![p] = 0]
    /\ line_list' = [line_list EXCEPT ![p] = <<>>]
    /\ idx_list' = [idx_list EXCEPT ![p] = <<>>]
    /\ invalid_rows_counter' = [invalid_rows_counter EXCEPT ![p] = 0]
    /\ pc' = [pc EXCEPT ![p] = "rows"]
    /\ UNCHANGED <<tree, ledgerExists, ledgerFile, remote, runs, last, prev, d,
                   pos, trace>>

\* one iteration of  for i, line in enumerate(file); after the last one the
\* run is at df = pd.DataFrame(line_list[1:], columns=line_list[0])
Row(p) ==
    /\ pc[p] = "rows"
    /\ i[p] < Len(file[p])
    /\ LET st == RowStep([line_list |-> line_list[p],
                          invalid_rows_counter |-> invalid_rows_counter[p],
                          idx_list |-> idx_list[p]],
                         i[p], file[p][i[p] + 1])
       IN /\ line_list' = [line_list EXCEPT ![p] = st.line_list]
          /\ idx_list' = [idx_list EXCEPT ![p] = st.idx_list]
          /\ invalid_rows_counter' =
                 [invalid_rows_counter EXCEPT ![p] = st.invalid_rows_counter]
    /\ i' = [i EXCEPT ![p] = @ + 1]
    /\ pc' = [pc EXCEPT ![p] = IF i[p] + 1 = Len(file[p]) THEN "upload" ELSE "rows"]
    /\ UNCHANGED <<tree, ledgerExists, ledgerFile, remote, runs, last, prev, d,
                   pos, file, trace>>

\* what upload_to_redivis sends: the csv written from the data frame
\* (returned: whether upload_to_redivis returned after sending it)
Table(p, returned) ==
    [table |-> TableName(Current(p).key), path |-> Current(p).path,
     header |-> line_list[p][1], rows |-> Tail(line_list[p]),
     returned |-> returned]

\* upload_to_redivis returns: upload.create and both table.get succeeded
UploadOk(p) ==
    /\ pc[p] = "upload"
    /\ remote' = Append(remote, Table(p, TRUE))
    /\ trace' = [trace EXCEPT ![p] =
                    Append(@, Event("uploaded", Current(p).path, <<>>))]
    /\ pc' = [pc EXCEPT ![p] = "record"]
    /\ UNCHANGED <<tree, ledgerExists, ledgerFile, runs, last, prev, d, pos>>
    /\ UNCHANGED loopVars

\* (mutant) write_uploaded_tables is called before upload_to_redivis
UploadFailAfterWrite(p) ==
    /\ pc[p] = "upload"
    /\ ledgerFile' = write_uploaded_tables(ledgerFile, Current(p).path)
    /\ trace' = [trace EXCEPT ![p] =
                    @ \o <<Event("append", Current(p).path, <<>>),
                           Event("upload_failed", Current(p).path, <<>>)>>]
    /\ pc' = [pc EXCEPT ![p] = "aborted"]
    /\ last' = [status |-> "aborted", failed |-> Current(p).path]
    /\ UNCHANGED <<tree, ledgerExists, remote, runs, prev, d, pos>>
    /\ UNCHANGED loopVars

\* upload.create raises (raise_on_fail=True), or a call before it does:
\* nothing catches the exception, the run ends
UploadFail(p) ==
    /\ pc[p] = "upload"
    /\ trace' = [trace EXCEPT ![p] =
                    Append(@, Event("upload_failed", Current(p).path, <<>>))]
    /\ pc' = [pc EXCEPT ![p] = "aborted"]
    /\ last' = [status |-> "aborted", failed |-> Current(p).path]
    /\ UNCHANGED <<tree, ledgerExists, ledgerFile, remote, runs, prev, d, pos>>
    /\ UNCHANGED loopVars

\* upload.create succeeded, the table.get() after it raises: the rows are
\* in the remote table and the run ends
UploadLost(p) ==
    /\ pc[p] = "upload"
    /\ remote' = Append(remote, Table(p, FALSE))
    /\ trace' = [trace EXCEPT ![p] =
                    Append(@, Event("upload_lost", Current(p).path, <<>>))]
    /\ pc' = [pc EXCEPT ![p] = "aborted"]
    /\ last' = [status |-> "lost", failed |-> Current(p).path]
    /\ UNCHANGED <<tree, ledgerExists, ledgerFile, runs, prev, d, pos>>
    /\ UNCHANGED loopVars

\* (mutant) the alert is sent whether or not a row was removed
RecordThenAlert(p) ==
    /\ pc[p] = "record"
    /\ ledgerFile' = write_uploaded_tables(ledgerFile, Current(p).path)
    /\ ledgerExists' = TRUE
    /\ trace' = [trace EXCEPT ![p] =
                    Append(@, Event("append", Current(p).path, <<>>))]
    /\ pc' = [pc EXCEPT ![p] = "alert"]
    /\ UNCHANGED <<tree, remote, runs, last, prev, d, pos>>
    /\ UNCHANGED loopVars

\* write_uploaded_tables(text_file_path, path) after the upload
Record(p) ==
    /\ pc[p] = "record"
    /\ ledgerFile' = write_uploaded_tables(ledgerFile, Current(p).path)
    /\ ledgerExists' = TRUE
    /\ trace' = [trace EXCEPT ![p] =
                    Append(@, Event("append", Current(p).path, <<>>))]
    /\ IF Len(idx_list[p]) > 0
       THEN /\ pc' = [pc EXCEPT ![p] = "alert"]
            /\ pos' = pos
       ELSE /\ pc' = [pc EXCEPT ![p] = "files"]
            /\ pos' = [pos EXCEPT ![p] = @ + 1]
    /\ UNCHANGED <<tree, remote, runs, last, prev, d>>
    /\ UNCHANGED loopVars

\* what requests.post can do
PostOutcomes == {"posted", "rejected", "raised"}

\* send_slack_message: "0" when requests.post returned, "1" when it raised
send_slack_message(outcome) == IF outcome = "raised" THEN "1" ELSE "0"

\* Python's  not result  for a str
Not(result) == result = ""

\* what the run logs after send_slack_message returned result
AlertEvents(path, idxs, outcome, result) ==
    <<Event("alert", path, <<idxs, outcome>>)>>
    \o (IF Not(result) THEN <<Event("error", path, <<>>)>> ELSE <<>>)

\* (mutant) the exception of requests.post leaves send_slack_message
AlertRaising(p) ==
    /\ pc[p] = "alert"
    /\ \E outcome \in PostOutcomes :
          /\ trace' = [trace EXCEPT ![p] =
                          @ \o AlertEvents(Current(p).path, idx_list[p], outcome,
                                           send_slack_message(outcome))]
          /\ IF outcome = "raised"
             THEN /\ pc' = [pc EXCEPT ![p] = "aborted"]
                  /\ pos' = pos
             ELSE /\ pc' = [pc EXCEPT ![p] = "files"]
                  /\ pos' = [pos EXCEPT ![p] = @ + 1]
    /\ UNCHANGED <<tree, ledgerExists, ledgerFile, remote, runs, last, prev, d>>
    /\ UNCHANGED loopVars

\* if len(idx_list) > 0: result = send_slack_message(s); if not result: ...
Alert(p) ==
    /\ pc[p] = "alert"
    /\ \E outcome \in PostOutcomes :
          trace' = [trace EXCEPT ![p] =
                       @ \o AlertEvents(Current(p).path, idx_list[p], outcome,
                                        send_slack_message(outcome))]
    /\ pos' = [pos EXCEPT ![p] = @ + 1]
    /\ pc' = [pc EXCEPT ![p] = "files"]
    /\ UNCHANGED <<tree, ledgerExists, ledgerFile, remote, runs, last, prev, d>>
    /\ UNCHANGED loopVars

\* the for loops are exhausted: the run returns
Finish(p) ==
    /\ pc[p] = "files"
    /\ pos[p] = Len(Todo(d[p]))
    /\ pc' = [pc EXCEPT ![p] = "done"]
    /\ last' = [status |-> "done", failed |-> NoPath]
    /\ UNCHANGED <<tree, ledgerExists, ledgerFile, remote, runs, prev, d, pos,
                   trace>>
    /\ UNCHANGED loopVars

Step(p) ==
    \/ EmptyFile(p)
    \/ OpenFile(p)
    \/ Row(p)
    \/ UploadOk(p)
    \/ UploadFail(p)
    \/ UploadLost(p)
    \/ Record(p)
    \/ Alert(p)
    \/ Finish(p)

\* Runs are scheduled one at a time (main.py calls upload_append_csv_files
\* once and returns): the same process runs again when its run has ended.
Scheduled == {"r1"}

Next ==
    \E p \in Scheduled :
        \/ DatasetFail(p)
        \/ Begin(p)
        \/ Step(p)

Spec == Init /\ [][Next]_vars

-----------------------------------------------------------------------------
(* One run over a tree of one file, for every content of the file up to a  *)
(* length: the normalisation on every mix of lines.                        *)

NormChars == {"a", TAB, NL, BACKSLASH}

Contents == UNION {[1..n -> NormChars] : n \in 0..MaxContentLen}

\* a file of a header a,b,c and the data lines 1,2,3 / x,y / 4,5,6
Scenario ==
    <<"a", TAB, "b", TAB, "c", NL, "1", TAB, "2", TAB, "3", NL,
      "x", TAB, "y", NL, "4", TAB, "5", TAB, "6", NL>>

InitNorm ==
    /\ tree \in {<<[dir |-> Q1, name |-> <<"a", ".", "t", "s", "v">>,
                   content |-> c]>> : c \in Contents \cup {Scenario}}
    /\ ledgerExists = FALSE
    /\ ledgerFile = <<>>
    /\ remote = <<>>
    /\ runs = 0
    /\ last = [status |-> "none", failed |-> NoPath]
    /\ prev = [p \in Procs |-> [status |-> "none", failed |-> NoPath]]
    /\ pc = [p \in Procs |-> "idle"]
    /\ d = [p \in Procs |-> <<>>]
    /\ pos = [p \in Procs |-> 0]
    /\ file = [p \in Procs |-> <<>>]
    /\ i = [p \in Procs |-> 0]
    /\ line_list = [p \in Procs |-> <<>>]
    /\ idx_list = [p \in Procs |-> <<>>]
    /\ invalid_rows_counter = [p \in Procs |-> 0]
    /\ trace = [p \in Procs |-> <<>>]

NextNorm ==
    \E p \in Scheduled :
        \/ runs = 0 /\ Begin(p)
        \/ Step(p)

SpecNorm == InitNorm /\ [][NextNorm]_vars

-----------------------------------------------------------------------------
(* Two runs of the script at the same time, each run once, over a table    *)
(* with a skipped row and a header-only table: nothing in the code keeps a *)
(* second run from starting while one is under way.                        *)

TreeC == SubSeq(TreeA, 2, 3)

InitConc ==
    /\ tree = TreeC
    /\ ledgerExists = FALSE
    /\ ledgerFile = <<>>
    /\ remote = <<>>
    /\ runs = 0
    /\ last = [status |-> "none", failed |-> NoPath]
    /\ prev = [p \in Procs |-> [status |-> "none", failed |-> NoPath]]
    /\ pc = [p \in Procs |-> "idle"]
    /\ d = [p \in Procs |-> <<>>]
    /\ pos = [p \in Procs |-> 0]
    /\ file = [p \in Procs |-> <<>>]
    /\ i = [p \in Procs |-> 0]
    /\ line_list = [p \in Procs |-> <<>>]
    /\ idx_list = [p \in Procs |-> <<>>]
    /\ invalid_rows_counter = [p \in Procs |-> 0]
    /\ trace = [p \in Procs |-> <<>>]

NextConc ==
    \E p \in Procs :
        \/ pc[p] = "idle" /\ Begin(p)
        \/ Step(p)

SpecConc == InitConc /\ [][NextConc]_vars

-----------------------------------------------------------------------------
(* The script run again and again, without end, over both releases of      *)
(* a.tsv and the header-only b.tsv.                                        *)
(* upload.create may raise on every attempt for the first release of       *)
(* a.tsv; for every other file it may raise, but not for ever.             *)

TreeF == SubSeq(TreeA, 1, 3)

StuckPath == FilePath(TreeF[1])

InitFair ==
    /\ tree = TreeF
    /\ ledgerExists = FALSE
    /\ ledgerFile = <<>>
    /\ remote = <<>>
    /\ runs = 0
    /\ last = [status |-> "none", failed |-> NoPath]
    /\ prev = [p \in Procs |-> [status |-> "none", failed |-> NoPath]]
    /\ pc = [p \in Procs |-> "idle"]
    /\ d = [p \in Procs |-> <<>>]
    /\ pos = [p \in Procs |-> 0]
    /\ file = [p \in Procs |-> <<>>]
    /\ i = [p \in Procs |-> 0]
    /\ line_list = [p \in Procs |-> <<>>]
    /\ idx_list = [p \in Procs |-> <<>>]
    /\ invalid_rows_counter = [p \in Procs |-> 0]
    /\ trace = [p \in Procs |-> <<>>]

\* the files of TreeF that reach upload_to_redivis, StuckPath left out
Uploadable ==
    {FilePath(f) : f \in {g \in Range(TreeF) :
                              /\ Wanted(g.name)
                              /\ ~IsEmpty(ReadLines(g.content))
                              /\ FilePath(g) # StuckPath}}

\* A run begins, as in Begin, whatever the number of runs before it.
RunAgain(p) ==
    /\ Stopped(p)
    /\ prev' = [prev EXCEPT ![p] = last]
    /\ ledgerExists' = TRUE
    /\ ledgerFile' = CreateIfMissing(ledgerExists, ledgerFile)
    /\ \E dict \in PathsDicts(tree, ledgerFile') : d' = [d EXCEPT ![p] = dict]
    /\ pos' = [pos EXCEPT ![p] = 0]
    /\ trace' = [trace EXCEPT ![p] = <<>>]
    /\ pc' = [pc EXCEPT ![p] = "files"]
    /\ UNCHANGED <<tree, remote, runs, last>>
    /\ UNCHANGED loopVars

\* upload_to_redivis returns for path
UploadOkOf(p, path) ==
    /\ pc[p] = "upload"
    /\ Current(p).path = path
    /\ UploadOk(p)

StepFair(p) ==
    \/ EmptyFile(p)
    \/ OpenFile(p)
    \/ Row(p)
    \/ \E f \in Range(TreeF) : UploadOkOf(p, FilePath(f))
    \/ UploadFail(p)
    \/ Record(p)
    \/ Alert(p)
    \/ Finish(p)

NextFair ==
    \E p \in Scheduled :
        \/ RunAgain(p)
        \/ StepFair(p)

\* A run that has started goes on, a run that has ended is followed by a
\* next one, and an upload attempted again and again succeeds in the end.
\* RunAgain(p) is enabled exactly where Stopped(p) holds and leads to a
\* state where it does not, so []<>~Stopped(p) is WF_vars(RunAgain(p)).
FairRuns ==
    \A p \in Scheduled :
        /\ []<>~Stopped(p)
        /\ WF_vars(StepFair(p))
        /\ \A path \in Uploadable : SF_vars(UploadOkOf(p, path))

SpecFair == InitFair /\ [][NextFair]_vars /\ FairRuns

-----------------------------------------------------------------------------
(* Properties *)

IsPrefix(a, b) == Len(a) <= Len(b) /\ SubSeq(b, 1, Len(a)) = a

\* the paths the ledger holds, as the next run will read them
Entries == get_uploaded_tables(ledgerFile)

\* the file has fewer than 2 lines
Short(path) == Len(ReadLines(ContentOf(tree, path))) < 2

\* the run has sent the file to upload_to_redivis or passed it as empty
Attempted(p, path) ==
    \E k \in 1..Len(trace[p]) :
        /\ trace[p][k].path = path
        /\ trace[p][k].ev \in {"uploaded", "upload_failed", "upload_lost", "append"}

\* the paths get_paths_dict returned to the run
Candidates(p) == {c.path : c \in Range(Todo(d[p]))}

\* the run wrote path to the ledger
Appended(p, path) == Member(Event("append", path, <<>>), trace[p])

\* C1: the path of a file with at least 2 lines is written to the ledger only
\* after upload_to_redivis returned for that file in the same run, and every
\* ledger entry is the path of a file whose upload returned or of a file
\* with fewer than 2 lines.
C1_AppendOnlyAfterUpload ==
    /\ \A p \in Procs : \A k \in 1..Len(trace[p]) :
          (trace[p][k].ev = "append" /\ ~Short(trace[p][k].path))
          => \E j \in 1..(k-1) :
                 trace[p][j] = Event("uploaded", trace[p][k].path, <<>>)
    /\ \A e \in Range(Entries) :
          \E f \in Range(tree) :
              /\ FilePath(f) = e
              /\ \/ Short(e)
                 \/ \E r \in Range(remote) : r.path = e /\ r.returned

C1_Witness ==
    \E p \in Procs : \E path \in Candidates(p) :
        ~Short(path) /\ Appended(p, path) /\ Member(path, Entries)

\* C2: when the previous run completed, the next run on the same tree and
\* ledger gets no candidate path from get_paths_dict and performs no upload,
\* no ledger append and no alert.
C2_SecondRunIngestsNothing ==
    \A p \in Procs :
        (pc[p] \notin {"idle", "no_dataset"} /\ prev[p].status = "done")
        => d[p] = <<>> /\ trace[p] = <<>>

C2_Witness ==
    \E p \in Procs :
        /\ pc[p] = "done"
        /\ prev[p].status = "done"
        /\ \A f \in Range(tree) : Wanted(f.name) => Member(FilePath(f), Entries)
        /\ remote # <<>>

\* C3: when upload.create raises for a file, the path is not appended to the
\* ledger in that run, and the next run finds the file among its candidates
\* and attempts it.
C3_FailedFileAttemptedNextRun ==
    \A p \in Procs :
        /\ \A k \in 1..Len(trace[p]) :
              trace[p][k].ev = "upload_failed"
              => /\ ~Appended(p, trace[p][k].path)
                 /\ ~Member(trace[p][k].path, Entries)
        /\ (prev[p].status = "aborted" /\ pc[p] \notin {"idle", "no_dataset"})
           => /\ prev[p].failed \in Candidates(p)
              /\ pc[p] \in {"done", "aborted"} => Attempted(p, prev[p].failed)

\* C4: when the upload of one file fails, the run still attempts every
\* remaining candidate, and the failed file is the only candidate missing
\* from the ledger after the run.
C4_RunContinuesAfterFailure ==
    \A p \in Procs : \A k \in 1..Len(trace[p]) :
        (trace[p][k].ev = "upload_failed" /\ Stopped(p))
        => \A path \in Candidates(p) :
               /\ Attempted(p, path)
               /\ path # trace[p][k].path => Member(path, Entries)

Rect(ll) == \A k \in 1..Len(ll) : Len(ll[k]) = Len(ll[1])

\* C5: every row of the table handed to the upload has as many fields as
\* the header, line_list never holds a mismatched row, and an iteration of
\* the loop never removes a row kept before.
C5_SchemaInvariant ==
    /\ [](\A p \in Procs : Rect(line_list[p]))
    /\ [](\A k \in 1..Len(remote) :
              \A row \in Range(remote[k].rows) :
                  Len(row) = Len(remote[k].header))
    /\ [][\A p \in Procs :
              pc[p] = "rows" => IsPrefix(line_list[p], line_list'[p])]_vars

C5_Witness ==
    \E p \in Procs :
        /\ pc[p] = "record"
        /\ Len(line_list[p]) = 2
        /\ idx_list[p] = <<<<2, ".">>>>
        /\ Len(file[p]) = 3

RECURSIVE Ascending(_)
Ascending(S) ==
    IF S = {} THEN <<>>
    ELSE LET m == CHOOSE x \in S : \A y \in S : x <= y
         IN <<m>> \o Ascending(S \ {m})

\* the 0-based indices of the data lines whose field count is not the header's
BadLines(f) ==
    {n \in 1..(Len(f) - 1) : Len(Split(f[n + 1], TAB)) # Len(Split(f[1], TAB))}

\* C6: with N data lines of which k have a field count other than the
\* header's, normalisation keeps the header and the N-k other lines in their
\* order, and records the k indices (0-based, header 0) in ascending order.
C6_SkipCorrectness ==
    \A p \in Procs :
        pc[p] \in {"upload", "record", "alert"}
        => LET f == file[p]
               bad == Ascending(BadLines(f))
               good == Ascending((0..(Len(f) - 1)) \ BadLines(f))
           IN /\ line_list[p] = [k \in 1..Len(good) |-> Cleaned(f[good[k] + 1])]
              /\ Len(line_list[p]) - 1 = (Len(f) - 1) - Len(bad)
              /\ idx_list[p] = [k \in 1..Len(bad) |-> <<bad[k], ".">>]
              /\ invalid_rows_counter[p] = Len(bad)

C6_Witness ==
    \E p \in Procs :
        /\ pc[p] = "upload"
        /\ Len(idx_list[p]) = 2
        /\ Len(line_list[p]) = 2

\* C7: a file with fewer than 2 lines has its path appended to the ledger,
\* is never uploaded and causes no alert, and the run goes on to the next
\* candidate.
C7_EmptyFileRecorded ==
    /\ [](\A p \in Procs :
             /\ \A k \in 1..Len(trace[p]) :
                   Short(trace[p][k].path) => trace[p][k].ev = "append"
             /\ \A k \in 1..pos[p] :
                   Short(Todo(d[p])[k].path)
                   => /\ Appended(p, Todo(d[p])[k].path)
                      /\ Member(Todo(d[p])[k].path, Entries))
    /\ [](\A k \in 1..Len(remote) : ~Short(remote[k].path))
    /\ [][\A p \in Procs :
              (/\ pc[p] = "files"
               /\ pos[p] < Len(Todo(d[p]))
               /\ Short(Current(p).path))
              => /\ pc'[p] = "files"
                 /\ pos'[p] = pos[p] + 1
                 /\ remote' = remote
                 /\ ledgerFile' = ledgerFile \o Current(p).path \o <<NL>>]_vars

C7_Witness ==
    \E p \in Procs :
        /\ pc[p] = "rows"
        /\ pos[p] = 2
        /\ \A k \in 1..2 : Short(Todo(d[p])[k].path)
        /\ \E k \in 1..2 : ContentOf(tree, Todo(d[p])[k].path) = <<>>

\* the remote table a file is uploaded to
TableOf(path) == Split((CHOOSE f \in Range(tree) : FilePath(f) = path).name, ".")[1]

\* C8: within a run, files of the same table are uploaded in ascending order
\* of their paths.
C8_SameTableInPathOrder ==
    \A p \in Procs : \A j, k \in 1..Len(trace[p]) :
        (/\ j < k
         /\ trace[p][j].ev = "uploaded"
         /\ trace[p][k].ev = "uploaded"
         /\ TableOf(trace[p][j].path) = TableOf(trace[p][k].path))
        => LexLess(trace[p][j].path, trace[p][k].path)

\* C9: every step leaves the ledger's content, and its entries in order, as a
\* prefix of the new content; the ledger file is never removed; a missing
\* ledger file is created empty and read as an empty ledger.
C9_LedgerAppendOnly ==
    [][/\ IsPrefix(ledgerFile, ledgerFile')
       /\ IsPrefix(get_uploaded_tables(ledgerFile), get_uploaded_tables(ledgerFile'))
       /\ ledgerExists => ledgerExists'
       /\ (~ledgerExists /\ ledgerExists')
          => /\ ledgerFile' = <<>>
             /\ \E p \in Procs :
                   /\ pc'[p] = "files"
                   /\ {c.path : c \in Range(Todo(d'[p]))}
                        = {FilePath(f) : f \in {g \in Range(tree) : Wanted(g.name)}}]_vars

C9_Witness ==
    /\ runs = 3
    /\ last.status = "aborted"
    /\ Len(Entries) >= 3
    /\ \E p \in Procs : pc[p] = "files"

\* C10: when send_slack_message cannot post the alert, the run logs an error
\* for that alert.
C10_AlertFailureLogged ==
    \A p \in Procs : \A k \in 1..Len(trace[p]) :
        (trace[p][k].ev = "alert" /\ trace[p][k].info[2] = "raised")
        => /\ k < Len(trace[p])
           /\ trace[p][k + 1] = Event("error", trace[p][k].path, <<>>)

\* C11: whatever requests.post does, the alert step leaves the ledger and the
\* accepted uploads as they are, the file stays in the ledger, and the run
\* moves to the next candidate.
C11_AlertNeverAborts ==
    [][\A p \in Procs :
          pc[p] = "alert"
          => /\ ledgerFile' = ledgerFile
             /\ remote' = remote
             /\ Member(Current(p).path, get_uploaded_tables(ledgerFile'))
             /\ pc'[p] = "files"
             /\ pos'[p] = pos[p] + 1
             /\ d'[p] = d[p]]_vars

C11_Witness ==
    \E p \in Procs : \E k \in 1..Len(trace[p]) :
        /\ trace[p][k].ev = "alert"
        /\ trace[p][k].info[2] = "raised"
        /\ Member(trace[p][k].path, Entries)
        /\ pc[p] = "rows"

\* the run has normalised the scenario file
ScenarioDone(p) ==
    pc[p] \in {"upload", "record", "alert"} /\ file[p] = ReadLines(Scenario)

ScenarioRows(p) ==
    /\ line_list[p] = << <<<<"a">>, <<"b">>, <<"c">>>>,
                         <<<<"1">>, <<"2">>, <<"3">>>>,
                         <<<<"4">>, <<"5">>, <<"6">>>> >>
    /\ idx_list[p] = <<<<2, ".">>>>
    /\ invalid_rows_counter[p] = 1
    /\ Cleaned(file[p][idx_list[p][1][1] + 1]) = << <<"x">>, <<"y">> >>

\* C12 (as stated): for the header a,b,c and the data lines 1,2,3 / x,y /
\* 4,5,6 the rows 1,2,3 and 4,5,6 are kept, one row is skipped, with fields
\* x,y and index 1, and the skipped percentage is 50.0.
C12_ScenarioAsStated ==
    \A p \in Procs :
        ScenarioDone(p)
        => /\ line_list[p] = << <<<<"a">>, <<"b">>, <<"c">>>>,
                                <<<<"1">>, <<"2">>, <<"3">>>>,
                                <<<<"4">>, <<"5">>, <<"6">>>> >>
           /\ Len(idx_list[p]) = 1
           /\ idx_list[p][1] = <<1, ".">>
           /\ SkippedPercent(invalid_rows_counter[p], Len(file[p])) = 50000

\* C12 (amended): the rows 1,2,3 and 4,5,6 are kept under the header a,b,c,
\* one row is skipped, with fields x,y and index 2 (the header is line 0),
\* and the skipped percentage is 33.333 (1 skipped out of 3 data lines).
C12_Scenario ==
    \A p \in Procs :
        ScenarioDone(p)
        => /\ ScenarioRows(p)
           /\ SkippedPercent(invalid_rows_counter[p], Len(file[p])) = 33333

C12_Witness == \E p \in Procs : ScenarioDone(p) /\ pc[p] = "alert"

\* the indices an alert for the file must list
SkippedIndices(path) ==
    LET bad == Ascending(BadLines(ReadLines(ContentOf(tree, path))))
    IN [j \in 1..Len(bad) |-> <<bad[j], ".">>]

Alerted(p, path) ==
    \E k \in 1..Len(trace[p]) : trace[p][k].ev = "alert" /\ trace[p][k].path = path

\* C13: a run sends an alert for a file exactly when upload_to_redivis
\* returned for it and a row was skipped; the alert is sent once, right
\* after the file's ledger append, and lists the indices of the skipped rows.
C13_AlertIffUploadedAndSkipped ==
    \A p \in Procs :
        /\ \A k \in 1..Len(trace[p]) :
              trace[p][k].ev = "alert"
              => /\ SkippedIndices(trace[p][k].path) # <<>>
                 /\ trace[p][k].info[1] = SkippedIndices(trace[p][k].path)
                 /\ k >= 3
                 /\ trace[p][k - 1] = Event("append", trace[p][k].path, <<>>)
                 /\ trace[p][k - 2] = Event("uploaded", trace[p][k].path, <<>>)
                 /\ \A j \in 1..Len(trace[p]) :
                       (trace[p][j].ev = "alert"
                        /\ trace[p][j].path = trace[p][k].path) => j = k
        /\ \A k \in 1..pos[p] :
              (/\ Member(Event("uploaded", Todo(d[p])[k].path, <<>>), trace[p])
               /\ SkippedIndices(Todo(d[p])[k].path) # <<>>)
              => Alerted(p, Todo(d[p])[k].path)

C13_Witness ==
    \E p \in Procs : \E x, y, z \in Candidates(p) :
        /\ pc[p] = "done"
        /\ Alerted(p, x)
        /\ Member(Event("uploaded", y, <<>>), trace[p]) /\ ~Alerted(p, y)
        /\ Short(z) /\ Appended(p, z) /\ ~Alerted(p, z)

\* the ledger entries the run read when it began: the entries now, less the
\* ones the run has written since
EntriesAtStart(p) ==
    SubSeq(Entries, 1,
           Len(Entries)
           - Cardinality({k \in 1..Len(trace[p]) : trace[p][k].ev = "append"}))

\* C14: the candidates of a run are the files whose name ends in .tsv and
\* does not contain checkpoint and whose path was not in the ledger when the
\* run began, each once; the run never uploads or appends a path that was
\* in the ledger.
C14_CandidateSet ==
    \A p \in Procs :
        pc[p] \notin {"idle", "no_dataset"}
        => /\ Candidates(p) =
                 {FilePath(f) : f \in
                     {g \in Range(tree) :
                         /\ EndsWith(g.name, <<".", "t", "s", "v">>)
                         /\ ~Contains(g.name, Checkpoint)
                         /\ ~Member(FilePath(g), EntriesAtStart(p))}}
           /\ \A j, k \in 1..Len(Todo(d[p])) :
                 Todo(d[p])[j].path = Todo(d[p])[k].path => j = k
           /\ \A k \in 1..Len(trace[p]) :
                 ~Member(trace[p][k].path, EntriesAtStart(p))

C14_Witness ==
    \E p \in Procs :
        /\ pc[p] = "done"
        /\ Len(EntriesAtStart(p)) = 2
        /\ Cardinality(Candidates(p)) = 3
        /\ Len(Entries) = 5

\* the fields of a line with every backslash and the line terminator taken
\* out and nothing put in
FieldsWithoutBackslash(line) ==
    LET fields == Split(line, TAB)
    IN [k \in 1..Len(fields) |->
           Replace(Replace(fields[k], BACKSLASH, <<>>), NL, <<>>)]

\* C15: the cleanup takes every backslash and the line terminator out of a
\* field and leaves its other characters, and the number and order of the
\* fields of the line, as they are.
C15_CleanupRemovesBackslash ==
    \A p \in Procs :
        pc[p] \in {"upload", "record", "alert"}
        => LET f == file[p]
               good == Ascending((0..(Len(f) - 1)) \ BadLines(f))
           IN line_list[p] =
                  [k \in 1..Len(good) |-> FieldsWithoutBackslash(f[good[k] + 1])]

\* C16: when the skipped percentage is computed, the number of data lines
\* it divides by is at least 1 and the number of skipped rows is at most
\* that number, so the percentage lies between 0 and 100.
C16_PercentWellDefined ==
    \A p \in Procs :
        pc[p] = "upload"
        => /\ Len(file[p]) - 1 >= 1
           /\ invalid_rows_counter[p] >= 0
           /\ invalid_rows_counter[p] <= Len(file[p]) - 1
           /\ SkippedPercent(invalid_rows_counter[p], Len(file[p])) \in 0..100000

C16_Witness ==
    \E p \in Procs :
        /\ pc[p] = "upload"
        /\ Len(file[p]) = 2
        /\ invalid_rows_counter[p] = 1
        /\ SkippedPercent(invalid_rows_counter[p], Len(file[p])) = 100000

\* C17: the ledger never holds a path twice, over any sequence of runs, one
\* after the other, that complete or are ended by an upload failure.
C17_LedgerHasNoDuplicate ==
    \A j, k \in 1..Len(Entries) : Entries[j] = Entries[k] => j = k

C17_Witness ==
    /\ runs = 3
    /\ last.status = "done"
    /\ \E p \in Procs : pc[p] = "done" /\ prev[p].status \in {"aborted", "lost"}
    /\ Len(Entries) = 5

\* how many times x occurs in list
Count(x, list) == Cardinality({k \in 1..Len(list) : list[k] = x})

\* the paths of the uploads after which upload_to_redivis returned
Returned == [k \in 1..Len(remote) |-> IF remote[k].returned THEN remote[k].path ELSE NoPath]

\* C18: two runs at the same time are unsafe: when both runs have uploaded
\* and appended the same path, the remote table has received the file once
\* per run and the ledger holds the path once per run; the state is reached
\* with both runs reading the ledger before either writes.
C18_OverlappingRunsDuplicate ==
    \A f \in Range(tree) :
        (\A p \in Procs : Appended(p, FilePath(f)))
        => /\ Count(FilePath(f), Entries) = Cardinality(Procs)
           /\ ~Short(FilePath(f))
              => Count(FilePath(f), Returned) = Cardinality(Procs)

C18_Witness ==
    \E f \in Range(tree) :
        /\ \A p \in Procs :
              /\ Candidates(p) = {FilePath(g) : g \in Range(tree)}
              /\ Member(Event("uploaded", FilePath(f), <<>>), trace[p])
              /\ Appended(p, FilePath(f))
        /\ Count(FilePath(f), Entries) = Cardinality(Procs)
        /\ Count(FilePath(f), Returned) = Cardinality(Procs)

\* C19: with runs repeated for ever and every other upload succeeding in
\* the end, a file whose upload fails on every attempt does not keep the
\* other .tsv files from being recorded in the ledger.
C19_OthersEventuallyRecorded ==
    [](\A p \in Procs : ~Member(Event("uploaded", StuckPath, <<>>), trace[p]))
    => <>(\A f \in Range(tree) :
             (Wanted(f.name) /\ FilePath(f) # StuckPath)
             => Member(FilePath(f), Entries))

====
